---- MODULE Spec2Model ----
(***************************************************************************)
(* Model of streamlit_app.py, the Lottie animation editor.                 *)
(*                                                                         *)
(* JSON values are tagged records [t, v]:                                  *)
(*   "null"  v = 0                 Python None                             *)
(*   "num"   v = integer           a float, counted in units of 1/Scale    *)
(*   "str"   v = string                                                    *)
(*   "list"  v = sequence of values                                        *)
(*   "dict"  v = sequence of <<key, value>> pairs, in insertion order      *)
(* A hex colour "#rrggbb" is the triple <<rr, gg, bb>> of its bytes.       *)
(***************************************************************************)
EXTENDS Integers, Sequences, FiniteSets, TLC

\* ------------------------------------------------------------------ bounds
MaxItems == 2      \* longest "it" list of a group
MaxEdits == 2      \* most entries of a hand-made path -> rgba mapping
MaxRuns  == 2      \* interactions (script reruns) of one session

\* --------------------------------------------------------- program numbers
ByteMax == 255
Scale == 2 * ByteMax    \* fixed-point units per 1.0: two per colour byte step
DefaultOp == 60
DefaultFr == 60
DefaultScale == 100
GifFramesDefault == 30

\* ------------------------------------------------------------- JSON values
None == [t |-> "null", v |-> 0]
Num(n) == [t |-> "num", v |-> n]
Str(s) == [t |-> "str", v |-> s]
List(s) == [t |-> "list", v |-> s]
Dict(s) == [t |-> "dict", v |-> s]

\* a whole number n as a float
Float(n) == Num(n * Scale)

IsDict(x) == x.t = "dict"
IsList(x) == x.t = "list"

\* key in d            (d a dict)
HasKey(d, k) == \E i \in DOMAIN d.v : d.v[i][1] = k
KeyIndex(d, k) == CHOOSE i \in DOMAIN d.v : d.v[i][1] = k
\* d[key]
Get(d, k) == d.v[KeyIndex(d, k)][2]
\* d[key] = x : an existing key keeps its place, a new one goes last
Put(d, k, x) ==
    IF HasKey(d, k)
    THEN Dict([d.v EXCEPT ![KeyIndex(d, k)] = <<k, x>>])
    ELSE Dict(Append(d.v, <<k, x>>))
\* d.get(key, default)
GetOr(d, k, default) == IF HasKey(d, k) THEN Get(d, k) ELSE default

\* str(i) for a list index, and the digit strings int() parses back
IndexStr == <<"0", "1", "2", "3", "4", "5", "6", "7", "8", "9">>
str(i) == IndexStr[i + 1]
DigitStrings == {IndexStr[i] : i \in DOMAIN IndexStr} \cup {"00", "01"}
isdigit(p) == p \in DigitStrings
int(p) ==
    IF p = "00" THEN 0
    ELSE IF p = "01" THEN 1
    ELSE (CHOOSE i \in DOMAIN IndexStr : IndexStr[i] = p) - 1

\* the strings of the model that contain the letter k
StringsWithK == {"k", "stroke"}

\* 'k' in c, for whatever c is: "yes", "no", or "raise" (TypeError)
\* a str or list that holds 'k' answers yes, and c['k'] then raises
InK(c) ==
    IF IsDict(c) THEN (IF HasKey(c, "k") THEN "yes" ELSE "no")
    ELSE IF c.t = "str" THEN (IF c.v \in StringsWithK THEN "raise" ELSE "no")
    ELSE IF IsList(c)
         THEN (IF \E i \in DOMAIN c.v : c.v[i] = Str("k") THEN "raise" ELSE "no")
    ELSE "raise"

\* ------------------------------------------------------------- find_colors
\* The accumulator is [colors, raised]: the list find_colors appends to, and
\* whether an exception has ended the walk.
NoColors == [colors |-> <<>>, raised |-> FALSE]

\* one branch of the if/elif: ty matched, now 'c' in item and 'k' in item['c']
Emit(item, acc, path, label) ==
    IF ~HasKey(item, "c") THEN acc
    ELSE LET k == InK(Get(item, "c")) IN
         IF k = "raise" THEN [acc EXCEPT !.raised = TRUE]
         ELSE IF k = "no" THEN acc
         ELSE [acc EXCEPT !.colors =
                  Append(@, <<Append(path, label), Get(Get(item, "c"), "k")>>)]

RECURSIVE find_colors(_, _, _), find_children(_, _, _, _)
find_colors(item, acc, path) ==
    IF acc.raised THEN acc
    ELSE IF IsDict(item) THEN
        LET own == IF ~HasKey(item, "ty") THEN acc
                   ELSE IF Get(item, "ty") = Str("fl")
                        THEN Emit(item, acc, path, "Fill")
                   ELSE IF Get(item, "ty") = Str("st")
                        THEN Emit(item, acc, path, "Stroke")
                   ELSE acc
        IN find_children(item, 1, own, path)
    ELSE IF IsList(item) THEN find_children(item, 1, acc, path)
    ELSE acc

\* the for loop over item.items() or enumerate(item), from position i on
find_children(item, i, acc, path) ==
    IF acc.raised \/ i > Len(item.v) THEN acc
    ELSE LET step == IF IsDict(item)
                     THEN find_colors(item.v[i][2], acc, Append(path, item.v[i][1]))
                     ELSE find_colors(item.v[i], acc, Append(path, str(i - 1)))
         IN find_children(item, i + 1, step, path)

\* ------------------------------------------------------ rgb_to_hex, hex_to_rgb
\* int(x * 255) of a colour component in [0, 1]: truncation
ToByte(x) == (x.v * ByteMax) \div Scale
\* int(h, 16) / 255
FromByte(b) == Num((b * Scale) \div ByteMax)

rgb_to_hex(rgb) == <<ToByte(rgb[1]), ToByte(rgb[2]), ToByte(rgb[3])>>
hex_to_rgb(hex_color) == <<FromByte(hex_color[1]), FromByte(hex_color[2]), FromByte(hex_color[3])>>

\* color[:3]
FirstThree(s) == SubSeq(s, 1, IF Len(s) < 3 THEN Len(s) ELSE 3)

\* ------------------------------------------------------- edit_shape_colors
\* A colour the loop body gets through: a list whose first three entries are
\* numbers (rgb_to_hex) and that has a fourth (color[3]). Any other value of
\* c.k raises in the body.
Editable(color) ==
    /\ IsList(color)
    /\ Len(color.v) >= 4
    /\ \A i \in 1..3 : color.v[i].t = "num"

\* what st.color_picker returns: the value it was given, or the user's pick
Keep == <<>>
Picked(pick, current_color) == IF pick = Keep THEN current_color ELSE pick

\* color_changes[tuple(path)] = new_rgb, on a mapping kept in insertion order
MapPut(m, path, rgb) ==
    IF \E i \in DOMAIN m : m[i][1] = path
    THEN [m EXCEPT ![CHOOSE i \in DOMAIN m : m[i][1] = path] = <<path, rgb>>]
    ELSE Append(m, <<path, rgb>>)

\* the same with the alpha set to 1 instead of carried over
NewRgbOpaque(new_color, color) == List(Append(hex_to_rgb(new_color), Num(Scale)))

\* new_rgb = hex_to_rgb(new_color) + [color[3]]  # Preserve alpha
NewRgb(new_color, color) == List(Append(hex_to_rgb(new_color), color.v[4]))

\* the body of the for loop, for entry i of colors
RECURSIVE edit_loop(_, _, _, _)
edit_loop(colors, picks, i, acc) ==
    IF acc.raised \/ i > Len(colors) THEN acc
    ELSE LET path == colors[i][1]
             color == colors[i][2]
         IN IF ~Editable(color) THEN [acc EXCEPT !.raised = TRUE]
            ELSE LET current_color == rgb_to_hex(color.v)
                     new_color == Picked(picks[i], current_color)
                     new_rgb == NewRgb(new_color, color)
                 IN edit_loop(colors, picks, i + 1,
                       IF FirstThree(new_rgb.v) # FirstThree(color.v)
                       THEN [acc EXCEPT !.changes = MapPut(@, path, new_rgb)]
                       ELSE acc)

\* picks[i] is the user's answer to the i-th colour picker
edit_shape_colors(shp, prefix, picks) ==
    LET found == find_colors(shp, NoColors, <<prefix>>) IN
    IF found.raised THEN [changes |-> <<>>, raised |-> TRUE]
    ELSE edit_loop(found.colors, picks, 1, [changes |-> <<>>, raised |-> FALSE])

\* ----------------------------------------------------- apply_color_changes
\* A node's place in a tree is the sequence of child positions leading to it.
Child(node, i) == IF IsDict(node) THEN node.v[i][2] ELSE node.v[i]

RECURSIVE NodeAt(_, _)
NodeAt(node, pos) ==
    IF pos = <<>> THEN node ELSE NodeAt(Child(node, Head(pos)), Tail(pos))

\* the tree with the node at pos replaced (an in-place write through target)
RECURSIVE SetAt(_, _, _)
SetAt(node, pos, new) ==
    IF pos = <<>> THEN new
    ELSE LET i == Head(pos)
             sub == SetAt(Child(node, i), Tail(pos), new)
         IN IF IsDict(node)
            THEN Dict([node.v EXCEPT ![i] = <<node.v[i][1], sub>>])
            ELSE List([node.v EXCEPT ![i] = sub])

\* path[1:-1]
Inner(path) == SubSeq(path, 2, Len(path) - 1)

\* the loop "for p in path[1:-1]": where target ends, or that it broke out
RECURSIVE walk(_, _, _)
walk(target, segs, pos) ==
    IF segs = <<>> THEN [ok |-> TRUE, pos |-> pos]
    ELSE LET p == Head(segs) IN
         IF IsDict(target) /\ HasKey(target, p)
         THEN walk(Get(target, p), Tail(segs), Append(pos, KeyIndex(target, p)))
         ELSE IF IsList(target) /\ isdigit(p) /\ int(p) < Len(target.v)
         THEN walk(target.v[int(p) + 1], Tail(segs), Append(pos, int(p) + 1))
         ELSE [ok |-> FALSE, pos |-> pos]

\* the write one level too high: target['c'] = new_rgb
WriteColorOverC(target, new_rgb) == Put(target, "c", new_rgb)

\* target['c']['k'] = new_rgb
WriteColor(target, new_rgb) == Put(target, "c", Put(Get(target, "c"), "k", new_rgb))

\* One pass of the outer loop: st is "ok", "notfound" (first warning),
\* "unexpected" (second warning) or "raise" ('k' in target['c'] raised).
ApplyOne(shp, path, new_rgb) ==
    LET w == walk(shp, Inner(path), <<>>) IN
    IF ~w.ok THEN [st |-> "notfound", shape |-> shp]
    ELSE LET target == NodeAt(shp, w.pos) IN
         IF IsDict(target) /\ HasKey(target, "c")
         THEN LET k == InK(Get(target, "c")) IN
              IF k = "raise" THEN [st |-> "raise", shape |-> shp]
              ELSE IF k = "yes"
                   THEN [st |-> "ok",
                         shape |-> SetAt(shp, w.pos, WriteColor(target, new_rgb))]
              ELSE [st |-> "unexpected", shape |-> shp]
         ELSE [st |-> "unexpected", shape |-> shp]

\* The state of the loop: the subtree so far, the warned paths, and whether an
\* exception ended the loop.
RECURSIVE apply_loop(_, _, _)
apply_loop(color_changes, i, acc) ==
    IF acc.raised \/ i > Len(color_changes) THEN acc
    ELSE LET path == color_changes[i][1]
             r == ApplyOne(acc.shape, path, color_changes[i][2])
         IN apply_loop(color_changes, i + 1,
               IF r.st = "raise" THEN [acc EXCEPT !.raised = TRUE]
               ELSE IF r.st = "ok" THEN [acc EXCEPT !.shape = r.shape]
               ELSE [acc EXCEPT !.warnings = Append(@, <<r.st, path>>)])

apply_color_changes(shp, color_changes) ==
    apply_loop(color_changes, 1, [shape |-> shp, warnings |-> <<>>, raised |-> FALSE])

\* ------------------------------------------------- inputs of the colour code
\* [1, 0, 0, 1], and a colour off the byte grid with a half alpha
Red == List(<<Num(Scale), Num(0), Num(0), Num(Scale)>>)
Grey == List(<<Num(ByteMax), Num(0), Num(Scale), Num(ByteMax)>>)

FillRed == Dict(<<<<"ty", Str("fl")>>, <<"c", Dict(<<<<"a", Num(0)>>, <<"k", Red>>>>)>>>>)
StrokeGrey == Dict(<<<<"c", Dict(<<<<"k", Grey>>>>)>>, <<"ty", Str("st")>>>>)
FillNoK == Dict(<<<<"ty", Str("fl")>>, <<"c", Dict(<<<<"a", Num(0)>>>>)>>>>)
FillBadC == Dict(<<<<"ty", Str("fl")>>, <<"c", Num(Scale)>>>>)
StrokeStrC == Dict(<<<<"ty", Str("st")>>, <<"c", Str("k")>>>>)
Rect == Dict(<<<<"ty", Str("rc")>>, <<"c", Dict(<<<<"k", Red>>>>)>>>>)

\* a fill and a stroke with c.k; fills and strokes without it (no k in c, a
\* c that is a number, a c that is a string); another shape with c.k
Items == {FillRed, StrokeGrey, FillNoK, FillBadC, StrokeStrC, Rect}

SeqsUpTo(S, n) == UNION {[1..k -> S] : k \in 0..n}

Group(items) == Dict(<<<<"ty", Str("gr")>>, <<"it", List(items)>>>>)

\* a shape layer: a name, a transform, and a group followed by a stroke
Layer(shapes) ==
    Dict(<<<<"ty", Float(4)>>, <<"nm", Str("L0")>>,
           <<"ks", Dict(<<<<"r", Dict(<<<<"k", Float(0)>>>>)>>>>)>>,
           <<"shapes", List(shapes)>>>>)

Layers == {Layer(<<Group(it), StrokeGrey>>) : it \in SeqsUpTo(Items, MaxItems)}

Prefix == "Layer_0"

\* the colour picker's answers: #00ff00, or the value it was given
Palette == {<<0, ByteMax, 0>>}
Picks(n) == [1..n -> Palette \cup {Keep}]

\* hand-made mappings: the discovered paths, and paths that break on a
\* missing key, a non-digit index, an index past the end; paths that end on
\* a node of any kind; a second spelling of an index
HandPaths ==
    { <<Prefix, "shapes", "0", "nope", "Fill">>,
      <<Prefix, "shapes", "x", "Fill">>,
      <<Prefix, "shapes", "7", "Fill">>,
      <<Prefix, "Fill">>,
      <<Prefix, "shapes", "0", "it", "0", "Fill">>,
      <<Prefix, "shapes", "00", "it", "1", "Stroke">> }
PathsFor(shp) ==
    HandPaths \cup {c[1] : c \in
        {find_colors(shp, NoColors, <<Prefix>>).colors[i] :
            i \in DOMAIN find_colors(shp, NoColors, <<Prefix>>).colors}}
\* the i-th entry of a hand-made mapping carries its own colour
HandColor(i) == List(<<Num(0), Num(2 * i), Num(Scale), Num(Scale)>>)
Mappings(shp) ==
    {[i \in DOMAIN ps |-> <<ps[i], HandColor(i)>>] :
        ps \in {q \in SeqsUpTo(PathsFor(shp), MaxEdits) :
                   /\ Len(q) >= 1
                   /\ \A i, j \in DOMAIN q : i # j => q[i] # q[j]}}

\* ---------------------------------------------------------------- safe_get
\* float(value), or the ValueError/TypeError that sends safe_get to the default
IsFloatable(value) == value.t = "num" \/ (value.t = "str" /\ isdigit(value.v))
float(value) == IF value.t = "num" THEN value ELSE Float(int(value.v))

\* safe_get with a str key: only a dict answers
safe_get(obj, key, default) ==
    LET value == IF IsDict(obj) THEN GetOr(obj, key, default) ELSE default
    IN IF IsFloatable(value) THEN float(value) ELSE default

\* safe_get with an int key: only a list answers
safe_get_at(obj, key, default) ==
    LET value == IF IsList(obj) /\ 0 <= key /\ key < Len(obj.v)
                 THEN obj.v[key + 1] ELSE default
    IN IF IsFloatable(value) THEN float(value) ELSE default

\* int(x) of a float: towards zero
IntPart(x) == IF x.v >= 0 THEN x.v \div Scale ELSE -((-x.v) \div Scale)
Max(a, b) == IF a >= b THEN a ELSE b

\* the same counting both end frames: int(op - ip) + 1
TotalFramesInclusive(doc) ==
    Max(1, IntPart(Num(safe_get(doc, "op", Float(DefaultOp)).v
                       - safe_get(doc, "ip", Float(0)).v)) + 1)

\* total_frames = max(1, int(safe_get(op, 60) - safe_get(ip, 0)))
TotalFrames(doc) ==
    Max(1, IntPart(Num(safe_get(doc, "op", Float(DefaultOp)).v
                       - safe_get(doc, "ip", Float(0)).v)))

\* ------------------------------------------------------- the layer editor
\* pos[2:]
FromThird(s) == SubSeq(s, 3, Len(s))

\* st.number_input / st.text_input: the value shown, or what the user types
Typed == Float(5)
NumberInput(value, user) == IF user = "typed" THEN Typed ELSE value
Renamed == Str("Renamed")
TextInput(value, user) == IF user = "typed" THEN Renamed ELSE value

LayerLabel == <<"Layer 0", "Layer 1">>
LayerPrefix == <<"Layer_0", "Layer_1">>

\* The 'p' and 's' blocks: ks[key] or ks[key]['k'] becomes
\* [new_x, new_y] + old[2:]; user says which of the two boxes was typed in.
EditPair(ks, key, default, user) ==
    IF ~HasKey(ks, key) THEN [ks |-> ks, raised |-> FALSE]
    ELSE LET raw == Get(ks, key)
             old == IF IsDict(raw)
                    THEN GetOr(raw, "k", List(<<default, default>>))
                    ELSE raw
             new_x == NumberInput(safe_get_at(old, 0, default), user)
             new_y == NumberInput(safe_get_at(old, 1, default), "shown")
         IN IF ~IsList(old) THEN [ks |-> ks, raised |-> TRUE]
            ELSE LET new == List(<<new_x, new_y>> \o FromThird(old.v)) IN
                 [ks |-> IF IsDict(raw) THEN Put(ks, key, Put(raw, "k", new))
                         ELSE Put(ks, key, new),
                  raised |-> FALSE]

\* The 'r' block: safe_get(rotation, 0) reads index 0 of rotation
EditRotation(ks) ==
    IF ~HasKey(ks, "r") THEN ks
    ELSE LET raw == Get(ks, "r")
             rotation == IF IsDict(raw) THEN GetOr(raw, "k", Float(0)) ELSE raw
             new_rotation == NumberInput(safe_get_at(rotation, 0, Float(0)), "shown")
         IN IF IsDict(raw) THEN Put(ks, "r", Put(raw, "k", new_rotation))
            ELSE Put(ks, "r", new_rotation)

\* Transform Properties
EditTransform(layer, user) ==
    IF ~HasKey(layer, "ks") \/ ~IsDict(Get(layer, "ks"))
    THEN [layer |-> layer, raised |-> FALSE]
    ELSE LET p == EditPair(Get(layer, "ks"), "p", Float(0), user)
             s == EditPair(p.ks, "s", Float(DefaultScale), "shown")
         IN IF p.raised THEN [layer |-> layer, raised |-> TRUE]
            ELSE IF s.raised THEN [layer |-> Put(layer, "ks", p.ks), raised |-> TRUE]
            ELSE [layer |-> Put(layer, "ks", EditRotation(s.ks)), raised |-> FALSE]

\* Color Properties
EditLayerColors(layer, prefix, ps) ==
    LET e == edit_shape_colors(layer, prefix, ps)
        r == apply_color_changes(layer, e.changes)
    IN IF e.raised THEN [layer |-> layer, raised |-> TRUE]
       ELSE [layer |-> r.shape, raised |-> r.raised]

\* The Layer Editor of one rerun on layer number sel: name, transform, colours
EditLayer(doc, sel, name, user, ps) ==
    LET layers == Get(doc, "layers")
        layer == layers.v[sel + 1]
    IN IF ~IsDict(layer) THEN [doc |-> doc, raised |-> TRUE]
       ELSE LET named == Put(layer, "nm",
                            TextInput(GetOr(layer, "nm", Str(LayerLabel[sel + 1])), name))
                moved == EditTransform(named, user)
                tinted == EditLayerColors(moved.layer, LayerPrefix[sel + 1], ps)
                done == IF moved.raised THEN moved.layer ELSE tinted.layer
            IN [doc |-> Put(doc, "layers", List([layers.v EXCEPT ![sel + 1] = done])),
                raised |-> moved.raised \/ tinted.raised]

HasLayers(doc) == IsDict(doc) /\ HasKey(doc, "layers") /\ IsList(Get(doc, "layers"))

\* ------------------------------------------------------ documents to load
\* the document of the specification's scenario
Scenario ==
    Dict(<<<<"ip", Float(0)>>, <<"op", Float(DefaultOp)>>, <<"fr", Float(30)>>,
           <<"layers", List(<<Dict(<<<<"ty", Float(4)>>, <<"nm", Str("L0")>>,
                <<"shapes", List(<<Dict(<<<<"it", List(<<
                    Dict(<<<<"ty", Str("fl")>>, <<"c", Dict(<<<<"k", Red>>>>)>>>>)
                >>)>>>>)>>)>>>>)>>)>>>>)

\* one frame long, frame rate 0, a transform and an off-grid stroke
Still ==
    Dict(<<<<"ip", Float(2)>>, <<"op", Float(2)>>, <<"fr", Float(0)>>,
           <<"layers", List(<<Dict(<<<<"ty", Float(4)>>, <<"nm", Str("L0")>>,
                <<"ks", Dict(<<<<"p", Dict(<<<<"k", List(<<Float(1), Float(2), Float(0)>>)>>>>)>>,
                               <<"s", List(<<Float(DefaultScale), Float(DefaultScale), Float(DefaultScale)>>)>>,
                               <<"r", Dict(<<<<"k", Float(45)>>>>)>>>>)>>,
                <<"shapes", List(<<StrokeGrey>>)>>>>)>>)>>>>)

\* no ip, op, fr; a layer with no name
Bare == Dict(<<<<"v", Str("5")>>, <<"layers", List(<<Dict(<<<<"ind", Float(1)>>>>)>>)>>>>)

Uploads == {Scenario, Still}
Served == {Bare}

DefaultUrl == "https://assets5.lottiefiles.com/packages/lf20_V9t630.json"
UserUrl == "https://example.org/a.json"
Urls == {DefaultUrl, UserUrl}

\* ------------------------------------------- state of the colour code alone
VARIABLES
    shape,      \* the layer subtree the colour code is given
    op,         \* the last operation on it
    before,     \* the subtree before that operation
    after,      \* the subtree after it (the code writes in place)
    found,      \* what find_colors gave in that operation
    changes,    \* the mapping that operation handed to apply_color_changes
    picks,      \* the colour pickers' answers in that operation
    out         \* apply_color_changes' warnings, and whether the operation raised

cvars == <<shape, op, before, after, found, changes, picks, out>>

\* ------------------------------------------------------------------- state
VARIABLES
    session,      \* st.session_state.lottie_json
    lottie_json,  \* main's local document
    fresh,        \* lottie_json is an object of its own, not the session's
    pc,           \* where the rerun stands: idle between reruns
    ended,        \* how the last rerun ended
    errors,       \* what st.error has shown in this rerun
    cache,        \* st.cache_data of load_lottieurl
    original,     \* the document as it was last loaded
    prior,        \* the session document when this rerun began
    runs          \* reruns so far

mvars == <<session, lottie_json, fresh, pc, ended, errors, cache, original, prior, runs>>
vars == <<cvars, mvars>>

Quiet == [warnings |-> <<>>, raised |-> FALSE]
Raised == [warnings |-> <<>>, raised |-> TRUE]

ColorStart(shp) ==
    /\ shape = shp
    /\ op = "none"
    /\ before = shape
    /\ after = shape
    /\ found = NoColors
    /\ changes = <<>>
    /\ picks = <<>>
    /\ out = Quiet

\* find_colors(shape, colors, [prefix]) with colors = []
Walk ==
    /\ op = "none"
    /\ op' = "walk"
    /\ before' = shape
    /\ after' = shape
    /\ found' = find_colors(shape, NoColors, <<Prefix>>)
    /\ out' = IF found'.raised THEN Raised ELSE Quiet
    /\ changes' = <<>>
    /\ picks' = <<>>
    /\ UNCHANGED <<shape, mvars>>

\* every discovered path, mapped to the colour found there
IdentityOf(colors) == [i \in DOMAIN colors |-> <<colors[i][1], colors[i][2]>>]

\* find_colors, then apply_color_changes with the identity mapping, on a
\* copy of shape
PatchIdentity ==
    /\ op = "none"
    /\ \E f \in {find_colors(shape, NoColors, <<Prefix>>)} :
       \E r \in {apply_color_changes(shape, IdentityOf(f.colors))} :
       /\ op' = "identity"
       /\ before' = shape
       /\ found' = f
       /\ picks' = <<>>
       /\ IF f.raised
          THEN /\ changes' = <<>>
               /\ out' = Raised
               /\ after' = shape
          ELSE /\ changes' = IdentityOf(f.colors)
               /\ out' = [warnings |-> r.warnings, raised |-> r.raised]
               /\ after' = r.shape
       /\ UNCHANGED <<shape, mvars>>

\* apply_color_changes(shape, color_changes) with a mapping of any paths, on
\* a copy of shape
Patch ==
    /\ op = "none"
    /\ \E m \in Mappings(shape) :
       \E r \in {apply_color_changes(shape, m)} :
        /\ op' = "patch"
        /\ before' = shape
        /\ after' = r.shape
        /\ found' = NoColors
        /\ picks' = <<>>
        /\ changes' = m
        /\ out' = [warnings |-> r.warnings, raised |-> r.raised]
        /\ UNCHANGED <<shape, mvars>>

\* The Color Properties section of one rerun, on the layer itself:
\*   color_changes = edit_shape_colors(layer, prefix)
\*   if color_changes: apply_color_changes(layer, color_changes)
EditColors ==
    /\ op \in {"none", "edit"}
    /\ \E f \in {find_colors(shape, NoColors, <<Prefix>>)} :
       \E ps \in Picks(Len(f.colors)) :
       \E e \in {edit_shape_colors(shape, Prefix, ps)} :
       \E r \in {apply_color_changes(shape, e.changes)} :
           /\ UNCHANGED mvars
           /\ op' = "edit"
           /\ before' = shape
           /\ found' = f
           /\ picks' = ps
           /\ changes' = e.changes
           /\ IF e.raised
              THEN /\ out' = Raised
                   /\ after' = shape
                   /\ UNCHANGED shape
              ELSE /\ out' = [warnings |-> r.warnings, raised |-> r.raised]
                   /\ after' = r.shape
                   /\ shape' = r.shape


Miss == [t |-> "miss", v |-> 0]

MainStart ==
    /\ session = None
    /\ lottie_json = None
    /\ fresh = TRUE
    /\ pc = "idle"
    /\ ended = "none"
    /\ errors = {}
    /\ cache = [u \in Urls |-> Miss]
    /\ original = None
    /\ prior = None
    /\ runs = 0

\* the plain assignment lottie_json = st.session_state.lottie_json
alias(doc) == [doc |-> doc, fresh |-> FALSE]

\* lottie_json = copy.deepcopy(st.session_state.lottie_json)
deepcopy(doc) == [doc |-> doc, fresh |-> TRUE]

\* an assignment into lottie_json, seen through every name of that object
Store(doc) ==
    /\ lottie_json' = doc
    /\ session' = IF fresh THEN session ELSE doc

\* load_lottieurl(url), answered by the cache or by the network: got is the
\* body served, None for a 404, a transport error or a body that is no JSON
load_lottieurl(url, got) ==
    IF cache[url] # Miss
    THEN [value |-> cache[url], cache |-> cache, error |-> {}]
    ELSE [value |-> got,
          cache |-> [cache EXCEPT ![url] = got],
          error |-> IF got = None THEN {"Error loading Lottie from URL"} ELSE {}]

\* what the uploader holds besides a document: nothing, or a file that
\* json.load rejects
NoFile == [t |-> "nofile", v |-> 0]
BadFile == [t |-> "badfile", v |-> 0]

\* What the Load Animation block leaves in the session, and what it reports;
\* loaded says that a document came from the file or the URL.
LoadStep(file, url, got) ==
    IF file # NoFile
    THEN IF file = BadFile
         THEN [value |-> session, cache |-> cache, loaded |-> FALSE,
               error |-> {"Invalid JSON file"}]
         ELSE [value |-> file, cache |-> cache, loaded |-> TRUE, error |-> {}]
    ELSE IF url # ""
    THEN load_lottieurl(url, got) @@ [loaded |-> TRUE]
    ELSE IF session = None
    THEN load_lottieurl(DefaultUrl, got) @@ [loaded |-> TRUE]
    ELSE [value |-> session, cache |-> cache, loaded |-> FALSE, error |-> {}]

\* main, from its first line to the deepcopy
Load ==
    /\ pc = "idle"
    /\ runs < MaxRuns
    /\ \E file \in {NoFile, BadFile} \cup Uploads, url \in {"", UserUrl},
          got \in {None} \cup Served :
          LET l == LoadStep(file, url, got) IN
          /\ runs' = runs + 1
          /\ prior' = session
          /\ cache' = l.cache
          /\ session' = l.value
          /\ original' = IF l.loaded THEN l.value ELSE original
          /\ IF l.value = None
             THEN /\ errors' = l.error \cup {"Failed to load animation"}
                  /\ pc' = "idle"
                  /\ ended' = "returned"
                  /\ UNCHANGED <<lottie_json, fresh>>
             ELSE /\ errors' = l.error
                  /\ pc' = "copied"
                  /\ ended' = "none"
                  /\ lottie_json' = deepcopy(l.value).doc
                  /\ fresh' = deepcopy(l.value).fresh
    /\ UNCHANGED cvars

\* the stops of the trim slider the user drags to
SliderStops(total_frames) == {0, total_frames}

\* Trim Animation
Trim ==
    /\ pc = "copied"
    /\ \E trim_start, trim_end \in SliderStops(TotalFrames(lottie_json)) :
          /\ trim_start <= trim_end
          /\ Store(Put(Put(lottie_json, "ip", Float(trim_start)), "op", Float(trim_end)))
    /\ pc' = "trimmed"
    /\ UNCHANGED <<fresh, ended, errors, cache, original, prior, runs, cvars>>

\* Layer Editor; an exception ends the rerun, and st.selectbox over no
\* layers answers None, which is no list index
Edit ==
    /\ pc = "trimmed"
    /\ IF HasLayers(lottie_json) /\ Len(Get(lottie_json, "layers").v) = 0
       THEN /\ pc' = "idle"
            /\ ended' = "TypeError"
            /\ UNCHANGED <<lottie_json, session>>
       ELSE IF HasLayers(lottie_json)
       THEN \E sel \in 0..(Len(Get(lottie_json, "layers").v) - 1),
               name \in {"shown", "typed"}, user \in {"shown", "typed"} :
              \E ps \in Picks(Len(find_colors(Get(lottie_json, "layers").v[sel + 1],
                                              NoColors, <<LayerPrefix[sel + 1]>>).colors)) :
                 LET e == EditLayer(lottie_json, sel, name, user, ps) IN
                 /\ Store(e.doc)
                 /\ pc' = IF e.raised THEN "idle" ELSE "edited"
                 /\ ended' = IF e.raised THEN "TypeError" ELSE ended
       ELSE /\ pc' = "edited"
            /\ UNCHANGED <<lottie_json, session, ended>>
    /\ UNCHANGED <<fresh, errors, cache, original, prior, runs, cvars>>

\* lottie_json['fr'] = st.number_input("Frame Rate", value=safe_get(.., 'fr', 60))
FrameRate ==
    /\ pc = "edited"
    /\ \E fr \in {safe_get(lottie_json, "fr", Float(DefaultFr)), Float(0)} :
          Store(Put(lottie_json, "fr", fr))
    /\ pc' = "framed"
    /\ UNCHANGED <<fresh, ended, errors, cache, original, prior, runs, cvars>>

\* gif_frames / safe_get(lottie_json, 'fr', 60), None for a ZeroDivisionError
Duration(gif_frames, doc) ==
    LET fr == safe_get(doc, "fr", Float(DefaultFr)) IN
    IF fr.v = 0 THEN None ELSE Num((gif_frames * Scale * Scale) \div fr.v)

\* Export: the download button, and Generate GIF when clicked; to_gif
\* returns or raises
Export ==
    /\ pc = "framed"
    /\ \E click \in BOOLEAN, gif_frames \in {GifFramesDefault}, rendered \in BOOLEAN :
          IF ~click THEN pc' = "exported" /\ UNCHANGED ended
          ELSE IF Duration(gif_frames, lottie_json) = None
               THEN pc' = "idle" /\ ended' = "ZeroDivisionError"
          ELSE IF ~rendered
               THEN pc' = "idle" /\ ended' = "RenderError"
          ELSE pc' = "exported" /\ UNCHANGED ended
    /\ UNCHANGED <<session, lottie_json, fresh, errors, cache, original, prior, runs, cvars>>

\* st.session_state.lottie_json = lottie_json
Commit ==
    /\ pc = "exported"
    /\ session' = lottie_json
    /\ pc' = "idle"
    /\ ended' = "completed"
    /\ UNCHANGED <<lottie_json, fresh, errors, cache, original, prior, runs, cvars>>

Init == MainStart /\ ColorStart(None)
Next == Load \/ Trim \/ Edit \/ FrameRate \/ Export \/ Commit
Spec == Init /\ [][Next]_vars

\* the colour code on its own: one call of the walker or the patcher on a
\* subtree, or the Color Properties section rerun after rerun
ColorInit == MainStart /\ \E shp \in Layers : ColorStart(shp)
ColorNext == Walk \/ PatchIdentity \/ Patch \/ EditColors
SpecColors == ColorInit /\ [][ColorNext]_vars

\* ------------------------------------------------------ the colour claims
RECURSIVE Positions(_)
Positions(node) ==
    IF IsDict(node) \/ IsList(node)
    THEN {<<>>} \cup UNION {{<<i>> \o p : p \in Positions(Child(node, i))} :
                              i \in DOMAIN node.v}
    ELSE {<<>>}

\* a dict node whose ty is fl or st and that carries c.k
IsColorNode(node) ==
    /\ IsDict(node)
    /\ HasKey(node, "ty")
    /\ Get(node, "ty") \in {Str("fl"), Str("st")}
    /\ HasKey(node, "c")
    /\ IsDict(Get(node, "c"))
    /\ HasKey(Get(node, "c"), "k")
ColorPositions(tree) == {p \in Positions(tree) : IsColorNode(NodeAt(tree, p))}
ColorAt(tree, pos) == Get(Get(NodeAt(tree, pos), "c"), "k")

\* p comes before q in a depth-first, parent-first reading of the document
DocBefore(p, q) ==
    \/ Len(p) < Len(q) /\ SubSeq(q, 1, Len(p)) = p
    \/ \E i \in 1..Len(p) :
          /\ i <= Len(q)
          /\ SubSeq(p, 1, i - 1) = SubSeq(q, 1, i - 1)
          /\ p[i] < q[i]

\* where the patcher's walk along path[1:-1] ends in tree
Target(tree, path) == walk(tree, Inner(path), <<>>)

\* the walker's result is exact on the subtree it was given
ExactOn(tree, f) ==
    /\ ~f.raised
    /\ Len(f.colors) = Cardinality(ColorPositions(tree))
    /\ \A i, j \in DOMAIN f.colors : i # j => f.colors[i][1] # f.colors[j][1]
    /\ \A i \in DOMAIN f.colors :
          LET w == Target(tree, f.colors[i][1]) IN
          /\ w.ok
          /\ w.pos \in ColorPositions(tree)
          /\ ColorAt(tree, w.pos) = f.colors[i][2]
    /\ \A i, j \in DOMAIN f.colors :
          i < j => DocBefore(Target(tree, f.colors[i][1]).pos,
                             Target(tree, f.colors[j][1]).pos)

\* C1: on any subtree with N fill/stroke nodes that carry c.k, find_colors
\* appends exactly N pairs, in document order, with distinct paths, and each
\* path walked as the patcher walks it ends on the node whose c.k it recorded.
C1_WalkerExact == op = "walk" => ExactOn(before, found)

\* The same, for the walks that return: what find_colors appends is exact
\* whenever no fill/stroke node stops it with an exception.
WalkerExactWhenReturns == (op = "walk" /\ ~found.raised) => ExactOn(before, found)
WalkerReturnedThree == op = "walk" /\ ~found.raised /\ Len(found.colors) = 3

\* C2: the walker's paths, each mapped to the colour the node already holds,
\* leave the document equal to what it was when fed to the patcher.
C2_IdentityNoOp == op = "identity" => after = before
C2_Witness ==
    /\ op = "identity"
    /\ Len(changes) >= 2
    /\ out = Quiet
    /\ after = before

\* the picker answers with exactly one pick, at index j
OnlyPick(ps, j) ==
    /\ j \in DOMAIN ps
    /\ ps[j] # Keep
    /\ \A i \in DOMAIN ps : i # j => ps[i] = Keep

\* C3: editing one discovered colour sets that node's c.k to the picked RGB
\* followed by the old alpha, and leaves every other field as it was: the
\* name, the transform, and the colour of every node whose picker was left
\* at its initial value.
C3_SingleEditFrame ==
    (op = "edit" /\ ~out.raised) =>
        \A j \in DOMAIN picks :
            OnlyPick(picks, j) =>
                LET pos == Target(before, found.colors[j][1]).pos
                    old == found.colors[j][2]
                    new == List(Append(hex_to_rgb(picks[j]), old.v[4]))
                IN after = SetAt(before, pos, WriteColor(NodeAt(before, pos), new))

\* C4: every entry of the change set, and every colour the patcher writes for
\* it, has the alpha the node held before the edit.
C4_AlphaPreserved ==
    op = "edit" =>
        \A i \in DOMAIN changes :
            LET w == Target(before, changes[i][1]) IN
            /\ w.ok
            /\ changes[i][2].v[4] = ColorAt(before, w.pos).v[4]
            /\ ColorAt(after, w.pos).v[4] = ColorAt(before, w.pos).v[4]
C4_Witness ==
    /\ op = "edit"
    /\ before # shape
    /\ \E i \in DOMAIN changes :
          /\ changes[i][2].v[4] # Num(Scale)
          /\ picks[i] # Keep
          /\ ColorAt(after, Target(before, changes[i][1]).pos) = changes[i][2]

\* An edit the claim calls applicable: its path resolves on the subtree as
\* given and ends on a dict that carries c.k.
Resolves(tree, path) ==
    LET w == Target(tree, path) IN
    /\ w.ok
    /\ IsDict(NodeAt(tree, w.pos))
    /\ HasKey(NodeAt(tree, w.pos), "c")
    /\ IsDict(Get(NodeAt(tree, w.pos), "c"))
    /\ HasKey(Get(NodeAt(tree, w.pos), "c"), "k")

\* the subtree with the applicable edits of m written, in m's order
RECURSIVE Written(_, _, _)
Written(tree, m, i) ==
    IF i = 0 THEN tree
    ELSE LET prev == Written(tree, m, i - 1) IN
         IF Resolves(tree, m[i][1])
         THEN LET pos == Target(tree, m[i][1]).pos IN
              SetAt(prev, pos, WriteColor(NodeAt(prev, pos), m[i][2]))
         ELSE prev

WarnedPaths(w) == [i \in DOMAIN w |-> w[i][2]]
SkippedPaths(tree, m) ==
    WarnedPaths(SelectSeq([i \in DOMAIN m |-> <<Resolves(tree, m[i][1]), m[i][1]>>],
                          LAMBDA e : ~e[1]))

\* C9: an edit whose path does not resolve, or whose target lacks c.k, is
\* warned about and skipped, and every other edit of the mapping is applied,
\* in whatever order the mapping lists them.
C9_PatchSkipsFailures ==
    op = "patch" =>
        /\ ~out.raised
        /\ WarnedPaths(out.warnings) = SkippedPaths(before, changes)
        /\ after = Written(before, changes, Len(changes))

\* The same, for the calls that return.
PatchSkipsWhenReturns ==
    (op = "patch" /\ ~out.raised) =>
        /\ WarnedPaths(out.warnings) = SkippedPaths(before, changes)
        /\ after = Written(before, changes, Len(changes))
PatchMixed ==
    /\ op = "patch"
    /\ ~out.raised
    /\ Len(out.warnings) = 1
    /\ Len(changes) = 2
    /\ after # before

\* -------------------------------------------------------- the main claims
AfterTrim == pc \in {"trimmed", "edited", "framed", "exported"}
Completed == pc = "idle" /\ ended = "completed"

\* original_op - original_ip of the document as loaded
OriginalSpan ==
    safe_get(original, "op", Float(DefaultOp)).v - safe_get(original, "ip", Float(0)).v

\* 0 <= ip <= op <= limit
Trimmed(doc, limit) ==
    /\ 0 <= Get(doc, "ip").v
    /\ Get(doc, "ip").v <= Get(doc, "op").v
    /\ Get(doc, "op").v <= limit

\* C5 as stated: after any slider interaction 0 <= ip <= op <=
\* original_op - original_ip, also for documents whose op - ip is below 1.
C5_TrimWithinOriginal ==
    /\ AfterTrim => Trimmed(lottie_json, OriginalSpan)
    /\ Completed => Trimmed(session, OriginalSpan)

\* C5 as amended: after any slider interaction 0 <= ip <= op <=
\* max(1, int(original_op - original_ip)), a missing op read as 60 and a
\* missing ip as 0.
C5_TrimWithinTotal ==
    /\ AfterTrim => Trimmed(lottie_json, Max(1, IntPart(Num(OriginalSpan))) * Scale)
    /\ Completed => Trimmed(session, Max(1, IntPart(Num(OriginalSpan))) * Scale)
C5_Witness ==
    /\ Completed
    /\ OriginalSpan < Scale
    /\ Get(session, "op") = Float(1)

\* C6: when the URL fetch fails, the session holds after the interaction the
\* document it held before it.
C6_FailedFetchKeepsDocument ==
    "Error loading Lottie from URL" \in errors => session = prior

\* C7: requesting a GIF never ends in a division error, whatever the frame
\* rate of the document.
C7_NoDivisionError == ended # "ZeroDivisionError"

\* C8: an interaction that reported a load error (upload that is no JSON,
\* failed fetch) returned before the preview, the editors and the exporters.
C8_LoadErrorAborts ==
    (errors \cap {"Invalid JSON file", "Error loading Lottie from URL"} # {})
        => (pc = "idle" /\ ended = "returned")

\* C10: from the end of the load step to the last statement of main every
\* step leaves the session document alone, a rerun that an exception stops
\* included; the last statement overwrites it with the edited copy.
C10_SessionHeldUntilCommit ==
    [][/\ pc \in {"copied", "trimmed", "edited", "framed"} => session' = session
       /\ pc = "exported" => (session' = lottie_json /\ ended' = "completed")]_vars
C10_Witness ==
    /\ pc = "idle"
    /\ ended = "RenderError"
    /\ lottie_json # session
    /\ Get(lottie_json, "op") # GetOr(session, "op", None)
====
